---- MODULE Spec2Model ----
(***************************************************************************)
(* Model of the aquanova_suite document-event hooks                        *)
(* (aquanova_suite/customizations.py, wired by hooks.py).                  *)
(*                                                                         *)
(* One request of the host framework is one action: the framework runs the *)
(* handlers registered for the event in order, and ends the request with a *)
(* commit when no handler raised and with a rollback to the last commit    *)
(* when one did.  The handlers are operators over a request context `c`:   *)
(*   c.cur    the document store as the running transaction sees it        *)
(*   c.com    the document store as of the last commit                     *)
(*   c.exc    an exception is propagating                                  *)
(*   c.failed some framework call of this request raised                   *)
(*   c.calls  framework calls made so far that can raise                   *)
(*   c.failAt the call that raises in this request (0: none)               *)
(*   c.log    titles passed to frappe.log_error, in order                  *)
(*   c.mail   mails passed to frappe.sendmail, in order                    *)
(*   c.msgs   messages passed to frappe.msgprint, in order                 *)
(***************************************************************************)
EXTENDS Integers, Sequences, FiniteSets, TLC

VARIABLES db, hasRole, clock, last

vars == <<db, hasRole, clock, last>>

---------------------------------------------------------------------------
(* Bounds of the model.                                                    *)
MaxProductionOrders == 2
MaxFiles == 2
MaxWarranties == 2
MaxEmergencies == 2
MaxLogs == 2
MaxClock == 1

---------------------------------------------------------------------------
(* Doctypes and values.                                                    *)
WSD == "Wastewater System Design"
PO == "Production Order"
IR == "Installation Record"
WR == "Warranty Record"
JC == "Job Card"
ML == "Maintenance Log"
MC == "Manufactured Component"
FILE == "File"

Doctypes == {WSD, PO, IR, WR, JC, ML, MC, FILE}

\* Python's None for a link, an id or a text field.
None == <<>>

DesignStatuses == {"Draft", "Approved"}
OrderStatuses == {"Draft", "Completed"}
InstallationStatuses == {"Scheduled", "Installed"}

Users == {"u1", "u2", "u3"}
UserEmail(u) ==
    CASE u = "u1" -> "pm1@example.com"
      [] u = "u2" -> ""
      [] OTHER -> "pm3@example.com"
SessionUser == "u1"
Hashes == {"a1b2"}

---------------------------------------------------------------------------
(* Dates.  A date string "YYYY-MM-DD" and a datetime.date are different    *)
(* values with the same calendar fields.                                   *)
DateStr(y, m, d) == [type |-> "str", year |-> y, month |-> m, day |-> d]
DateObj(y, m, d) == [type |-> "date", year |-> y, month |-> m, day |-> d]

\* frappe.utils.getdate: parse a date string; a date is returned as it is.
getdate(s) == DateObj(s.year, s.month, s.day)

\* str(x) inside an f-string: a date in ISO format, a string as it is.
str(x) == DateStr(x.year, x.month, x.day)

IsLeap(y) == (y % 4 = 0 /\ y % 100 # 0) \/ y % 400 = 0

DaysInMonth(y, m) ==
    IF m = 2 THEN (IF IsLeap(y) THEN 29 ELSE 28)
    ELSE IF m \in {4, 6, 9, 11} THEN 30 ELSE 31

Min(a, b) == IF a < b THEN a ELSE b

\* dateutil.relativedelta(months=n) added to a date: the month moves, the
\* year carries, the day is clamped to the length of the new month.
AddMonthsFields(x, n) ==
    LET total == x.month + n
        carry == IF total > 12 THEN (total - 1) \div 12 ELSE 0
        y == x.year + carry
        m == total - 12 * carry
    IN [x EXCEPT !.year = y, !.month = m, !.day = Min(x.day, DaysInMonth(y, m))]

\* frappe.utils.add_months / add_years: the result has the type of the input.
add_months(x, n) == AddMonthsFields(x, n)

add_years(x, n) ==
    LET y == x.year + n
    IN [x EXCEPT !.year = y, !.day = Min(x.day, DaysInMonth(y, x.month))]

\* The days on which requests arrive: the clock moves a quarter at a time.
Epoch == DateObj(2023, 11, 30)
DateAt(k) == add_months(Epoch, 3 * k)

\* frappe.utils.nowdate: today as a string.
nowdate(k) == str(DateAt(k))

---------------------------------------------------------------------------
(* The framework's document API on a request context.                      *)
Begin(store, failAt) ==
    [cur |-> store, com |-> store, exc |-> FALSE, failed |-> FALSE,
     calls |-> 0, failAt |-> failAt,
     log |-> <<>>, mail |-> <<>>, msgs |-> <<>>]

\* A framework call that can raise: it raises when it is call number failAt.
Call(c) ==
    LET n == c.calls + 1
    IN [c EXCEPT !.calls = n, !.exc = (n = c.failAt), !.failed = (n = c.failAt)]

\* The name the framework gives the next document of a doctype.
NewName(c, dt) == <<dt, Cardinality(c.cur[dt]) + 1>>

\* doc.insert(ignore_permissions=True)
insert(c, doc) ==
    IF c.exc THEN c
    ELSE LET k == Call(c)
         IN IF k.exc THEN k
            ELSE [k EXCEPT !.cur[doc.doctype] = @ \cup {doc}]

\* frappe.db.commit()
commit(c) == IF c.exc THEN c ELSE [c EXCEPT !.com = c.cur]

\* frappe.msgprint(m)
msgprint(c, m) == IF c.exc THEN c ELSE [c EXCEPT !.msgs = Append(@, m)]

\* frappe.sendmail(...)
sendmail(c, m) ==
    IF c.exc THEN c
    ELSE LET k == Call(c)
         IN IF k.exc THEN k ELSE [k EXCEPT !.mail = Append(@, m)]

\* frappe.render_template / get_pdf: a call that can raise and stores nothing.
render(c) == IF c.exc THEN c ELSE Call(c)

\* doc.db_set(field, value) on a Production Order's installation_record.
db_set_installation_record(c, name, value) ==
    IF c.exc THEN c
    ELSE LET k == Call(c)
         IN IF k.exc THEN k
            ELSE [k EXCEPT !.cur[PO] =
                    {IF p.name = name THEN [p EXCEPT !.installation_record = value]
                     ELSE p : p \in @}]

\* except Exception as e: frappe.log_error(title=...); frappe.throw(...)
LogAndThrow(c, title) ==
    IF c.exc THEN [c EXCEPT !.log = Append(@, title)] ELSE c

\* except Exception as e: frappe.log_error(title=...)   (no throw)
LogOnly(c, title) ==
    IF c.exc THEN [c EXCEPT !.log = Append(@, title), !.exc = FALSE] ELSE c

\* The document of a doctype with a name, as the transaction sees it.
Doc(c, dt, name) == CHOOSE r \in c.cur[dt] : r.name = name

RECURSIVE SetToSeq(_)
SetToSeq(S) ==
    IF S = {} THEN <<>>
    ELSE LET x == CHOOSE x \in S : TRUE IN <<x>> \o SetToSeq(S \ {x})

---------------------------------------------------------------------------
(* customizations.py                                                       *)

\* create_production_order without its status check.
create_production_order_unguarded(c, name, today) ==
    IF c.exc THEN c
    ELSE LET doc == Doc(c, WSD, name)
             production_order ==
                 [doctype |-> PO,
                  name |-> NewName(c, PO),
                  production_order_id |-> doc.design_id,
                  wastewater_design |-> doc.name,
                  status |-> "Draft",
                  expected_start_date |-> today,
                  production_qty |-> 1,
                  bom_no |-> doc.bom_reference,
                  installation_record |-> None]
             body == msgprint(commit(insert(c, production_order)),
                              <<"Production Order created", production_order.name, doc.design_id>>)
         IN LogAndThrow(body, "Production Order Creation Failed")

create_production_order(c, name, today) ==
    IF c.exc THEN c
    ELSE LET doc == Doc(c, WSD, name)
             production_order ==
                 [doctype |-> PO,
                  name |-> NewName(c, PO),
                  production_order_id |-> doc.design_id,
                  wastewater_design |-> doc.name,
                  status |-> "Draft",
                  expected_start_date |-> today,
                  production_qty |-> 1,
                  bom_no |-> doc.bom_reference,
                  installation_record |-> None]
             body ==
                 IF doc.status = "Approved"
                 THEN msgprint(commit(insert(c, production_order)),
                               <<"Production Order created", production_order.name, doc.design_id>>)
                 ELSE c
         IN LogAndThrow(body, "Production Order Creation Failed")

send_design_approval_email(c, name, roles) ==
    IF c.exc THEN c
    ELSE LET doc == Doc(c, WSD, name)
             subject == <<"Design Approved", doc.design_id>>
             message == <<"Design approved on", doc.design_id, doc.design_date>>
             got == Call(c)
             production_managers ==
                 SetToSeq({r \in roles : r.role = "Production Manager"})
             emails == [i \in 1..Len(production_managers) |->
                           UserEmail(production_managers[i].parent)]
             recipients == SelectSeq(emails, LAMBDA e : e # "")
             body ==
                 IF got.exc THEN got
                 ELSE IF recipients # <<>>
                      THEN sendmail(got, [recipients |-> recipients,
                                          subject |-> subject,
                                          message |-> message])
                      ELSE got
         IN LogAndThrow(body, "Design Approval Email Failed")

attach_design_pdf(c, name) ==
    IF c.exc THEN c
    ELSE LET doc == Doc(c, WSD, name)
             html == render(c)
             pdf_data == render(html)
             file_doc ==
                 [doctype |-> FILE,
                  name |-> NewName(pdf_data, FILE),
                  file_name |-> <<doc.design_id, ".pdf">>,
                  is_private |-> 1,
                  attached_to_doctype |-> doc.doctype,
                  attached_to_name |-> doc.name]
             body == commit(insert(pdf_data, file_doc))
         IN LogAndThrow(body, "PDF Generation Failed")

create_job_card(c, installation_doc, scheduled_date, maintenance_type, emergency) ==
    IF c.exc THEN c
    ELSE LET job_card ==
                 [doctype |-> JC,
                  name |-> NewName(c, JC),
                  job_card_id |-> <<"JC", installation_doc.name, str(scheduled_date)>>,
                  installation_record |-> installation_doc.name,
                  scheduled_date |-> scheduled_date,
                  maintenance_type |-> maintenance_type,
                  status |-> "Open",
                  emergency |-> emergency,
                  remarks |-> IF ~emergency THEN "Auto-generated job card"
                              ELSE "Emergency job card generated"]
             body == msgprint(commit(insert(c, job_card)),
                              <<"Job Card created", job_card.name,
                                installation_doc.name, str(scheduled_date)>>)
         IN LogAndThrow(body, "Job Card Creation Failed")

\* A schedule that stops after the third quarter.
schedule_intervals_short == <<3, 6, 9>>

schedule_intervals == <<3, 6, 9, 12>>

RECURSIVE ScheduleLoop(_, _, _, _)
ScheduleLoop(c, installation_doc, install_date, i) ==
    IF i > Len(schedule_intervals) THEN c
    ELSE LET months == schedule_intervals[i]
             scheduled_date == add_months(install_date, months)
         IN ScheduleLoop(
                create_job_card(c, installation_doc, scheduled_date,
                                "Scheduled Maintenance", FALSE),
                installation_doc, install_date, i + 1)

create_maintenance_schedule(c, installation_doc) ==
    IF c.exc THEN c
    ELSE LET install_date == getdate(installation_doc.installation_date)
             body == ScheduleLoop(c, installation_doc, install_date, 1)
         IN LogAndThrow(body, "Maintenance Schedule Creation Failed")

\* create_installation_record without its existing-link check.
create_installation_record_relinking(c, name, today) ==
    IF c.exc THEN c
    ELSE LET doc == Doc(c, PO, name)
             installation ==
                 [doctype |-> IR,
                  name |-> NewName(c, IR),
                  production_order |-> doc.name,
                  system_design |-> doc.wastewater_design,
                  installation_date |-> today,
                  installed_by |-> SessionUser,
                  status |-> "Scheduled"]
             saved == msgprint(
                          commit(db_set_installation_record(
                                     insert(c, installation), doc.name, installation.name)),
                          <<"Installation Record created", installation.name, doc.name>>)
             body ==
                 IF doc.status = "Completed"
                 THEN create_maintenance_schedule(saved, installation)
                 ELSE c
         IN LogAndThrow(body, "Installation Record Creation Failed")

create_installation_record(c, name, today) ==
    IF c.exc THEN c
    ELSE LET doc == Doc(c, PO, name)
             installation ==
                 [doctype |-> IR,
                  name |-> NewName(c, IR),
                  production_order |-> doc.name,
                  system_design |-> doc.wastewater_design,
                  installation_date |-> today,
                  installed_by |-> SessionUser,
                  status |-> "Scheduled"]
             saved == msgprint(
                          commit(db_set_installation_record(
                                     insert(c, installation), doc.name, installation.name)),
                          <<"Installation Record created", installation.name, doc.name>>)
             body ==
                 IF doc.status = "Completed" /\ doc.installation_record = None
                 THEN create_maintenance_schedule(saved, installation)
                 ELSE c
         IN LogAndThrow(body, "Installation Record Creation Failed")

\* create_warranty_record with a warranty that ends on the day it starts.
create_warranty_record_no_term(c, name) ==
    IF c.exc THEN c
    ELSE LET doc == Doc(c, IR, name)
             warranty_end_date == add_years(doc.installation_date, 0)
             warranty ==
                 [doctype |-> WR,
                  name |-> NewName(c, WR),
                  installation_record |-> doc.name,
                  start_date |-> doc.installation_date,
                  end_date |-> warranty_end_date,
                  status |-> "Active",
                  remarks |-> "Warranty automatically generated upon installation."]
             body ==
                 IF doc.status = "Installed"
                 THEN msgprint(commit(insert(c, warranty)),
                               <<"Warranty Record created", warranty.name, doc.name>>)
                 ELSE c
         IN LogAndThrow(body, "Warranty Record Creation Failed")

create_warranty_record(c, name) ==
    IF c.exc THEN c
    ELSE LET doc == Doc(c, IR, name)
             warranty_end_date == add_years(doc.installation_date, 1)
             warranty ==
                 [doctype |-> WR,
                  name |-> NewName(c, WR),
                  installation_record |-> doc.name,
                  start_date |-> doc.installation_date,
                  end_date |-> warranty_end_date,
                  status |-> "Active",
                  remarks |-> "Warranty automatically generated upon installation."]
             body ==
                 IF doc.status = "Installed"
                 THEN msgprint(commit(insert(c, warranty)),
                               <<"Warranty Record created", warranty.name, doc.name>>)
                 ELSE c
         IN LogAndThrow(body, "Warranty Record Creation Failed")

handle_emergency_job_card(c, name, today) ==
    IF c.exc THEN c
    ELSE LET installation_record == Doc(c, IR, name)
             scheduled_date == today
             body == msgprint(
                         create_job_card(c, installation_record, scheduled_date,
                                         "Emergency Maintenance", TRUE),
                         <<"Emergency Job Card created.">>)
         IN LogAndThrow(body, "Emergency Job Card Creation Failed")

\* log_maintenance_activity that always generates the maintenance id.
log_maintenance_activity_fresh_id(c, name, today, hash) ==
    IF c.exc THEN c
    ELSE LET doc == Doc(c, ML, name)
             maintenance_log ==
                 [doctype |-> ML,
                  name |-> NewName(c, ML),
                  maintenance_id |-> <<"ML-", hash>>,
                  installation_record |-> doc.installation_record,
                  equipment |-> doc.equipment,
                  maintenance_date |-> today,
                  performed_by |-> SessionUser,
                  activity |-> IF doc.activity # None
                               THEN doc.activity ELSE <<"Routine Check">>,
                  remarks |-> doc.remarks]
             body == msgprint(commit(insert(c, maintenance_log)),
                              <<"Maintenance Log created", maintenance_log.name>>)
         IN LogAndThrow(body, "Maintenance Log Creation Failed")

log_maintenance_activity(c, name, today, hash) ==
    IF c.exc THEN c
    ELSE LET doc == Doc(c, ML, name)
             maintenance_log ==
                 [doctype |-> ML,
                  name |-> NewName(c, ML),
                  maintenance_id |-> IF doc.maintenance_id # None
                                     THEN doc.maintenance_id ELSE <<"ML-", hash>>,
                  installation_record |-> doc.installation_record,
                  equipment |-> doc.equipment,
                  maintenance_date |-> today,
                  performed_by |-> SessionUser,
                  activity |-> IF doc.activity # None
                               THEN doc.activity ELSE <<"Routine Check">>,
                  remarks |-> doc.remarks]
             body == msgprint(commit(insert(c, maintenance_log)),
                              <<"Maintenance Log created", maintenance_log.name>>)
         IN LogAndThrow(body, "Maintenance Log Creation Failed")

update_inventory_on_component_production(c, component_id) ==
    IF c.exc THEN c
    ELSE LET body == msgprint(c, <<"Inventory updated", component_id>>)
         IN LogAndThrow(body, "Inventory Update Failed")

generate_maintenance_report(c) ==
    IF c.exc THEN c
    ELSE LET report_html == render(c)
             pdf_data == render(report_html)
             body == sendmail(pdf_data,
                              [recipients |-> <<"maintenance@example.com">>,
                               subject |-> <<"Monthly Maintenance Report">>,
                               message |-> <<"Please find attached the monthly maintenance report.">>])
         IN LogOnly(body, "Maintenance Report Generation Failed")

---------------------------------------------------------------------------
(* The state.                                                              *)
(*   db       the committed document store: doctype -> set of documents    *)
(*   hasRole  the rows of the child table "Has Role"                       *)
(*   clock    the day, counted in quarters since Epoch                     *)
(*   last     what the last request was and what it did                    *)

Designs ==
    {[doctype |-> WSD, name |-> <<WSD, 1>>, design_id |-> "WD-001",
      design_date |-> str(Epoch), status |-> "Draft", bom_reference |-> None],
     [doctype |-> WSD, name |-> <<WSD, 2>>, design_id |-> "WD-002",
      design_date |-> str(Epoch), status |-> "Draft", bom_reference |-> <<"BOM-2">>]}

Components == {"CMP-001"}

\* The users holding the role "Production Manager", as the site is set up.
RoleSets == {{}, {"u2"}, {"u1", "u2", "u3"}}

\* The calls of one request that can raise are numbered from 1; 0 is "none raises".
FailPoints == 0..6

Idle ==
    [event |-> "none", doc |-> None, status |-> "", linked |-> None,
     raised |-> FALSE, failed |-> FALSE, log |-> <<>>, mail |-> <<>>, msgs |-> <<>>]

Bounded(store) ==
    /\ Cardinality(store[PO]) <= MaxProductionOrders
    /\ Cardinality(store[FILE]) <= MaxFiles
    /\ Cardinality(store[WR]) <= MaxWarranties
    /\ Cardinality({j \in store[JC] : j.emergency}) <= MaxEmergencies
    /\ Cardinality(store[ML]) <= MaxLogs

EmptyStore == [dt \in Doctypes |-> IF dt = WSD THEN Designs ELSE {}]

Init ==
    /\ db = EmptyStore
    /\ hasRole \in {{[parent |-> u, role |-> "Production Manager"] : u \in S} : S \in RoleSets}
    /\ clock = 0
    /\ last = Idle

\* The end of a request: commit when no handler raised, roll back when one did.
Finish(c, event, doc, linked) ==
    /\ Bounded(c.cur)
    /\ db' = IF c.exc THEN c.com ELSE c.cur
    /\ last' = [event |-> event, doc |-> doc.name, status |-> doc.status,
                linked |-> linked, raised |-> c.exc, failed |-> c.failed,
                log |-> c.log, mail |-> c.mail, msgs |-> c.msgs]
    /\ UNCHANGED <<hasRole, clock>>

---------------------------------------------------------------------------
(* hooks.py: doc_events, one action per event.                             *)

SubmitDesign(d, failAt) ==
    LET c0 == Begin(db, failAt)
        c1 == create_production_order(c0, d.name, nowdate(clock))
        c2 == send_design_approval_email(c1, d.name, hasRole)
        c3 == attach_design_pdf(c2, d.name)
    IN Finish(c3, WSD, d, None)

SubmitProductionOrder(p, failAt) ==
    Finish(create_installation_record(Begin(db, failAt), p.name, nowdate(clock)),
           PO, p, p.installation_record)

SubmitInstallationRecord(i, failAt) ==
    Finish(create_warranty_record(Begin(db, failAt), i.name), IR, i, None)

SubmitMaintenanceLog(m, hash, failAt) ==
    Finish(log_maintenance_activity(Begin(db, failAt), m.name, nowdate(clock), hash),
           ML, [name |-> m.name, status |-> ""], None)

SubmitManufacturedComponent(id, failAt) ==
    Finish(update_inventory_on_component_production(Begin(db, failAt), id),
           MC, [name |-> <<MC, id>>, status |-> ""], None)

(* Functions called outside the event table.                               *)
EmergencyJobCard(i, failAt) ==
    Finish(handle_emergency_job_card(Begin(db, failAt), i.name, nowdate(clock)),
           "handle_emergency_job_card", i, None)

MaintenanceReport(failAt) ==
    Finish(generate_maintenance_report(Begin(db, failAt)),
           "generate_maintenance_report", [name |-> None, status |-> ""], None)

---------------------------------------------------------------------------
(* The users of the host system: they set the status the handlers read,    *)
(* they write Maintenance Logs, and time passes.                           *)

SetStatus(dt, name, s) ==
    /\ db' = [db EXCEPT ![dt] =
                {IF r.name = name THEN [r EXCEPT !.status = s] ELSE r : r \in @}]
    /\ last' = Idle
    /\ UNCHANGED <<hasRole, clock>>

SetDesignStatus(d, s) == d.status # s /\ SetStatus(WSD, d.name, s)

SetOrderStatus(p, s) == p.status # s /\ SetStatus(PO, p.name, s)

SetInstallationStatus(i, s) == i.status # s /\ SetStatus(IR, i.name, s)

WriteMaintenanceLog(id, activity) ==
    LET c == Begin(db, 0)
        log == [doctype |-> ML,
                name |-> NewName(c, ML),
                maintenance_id |-> id,
                installation_record |-> None,
                equipment |-> None,
                maintenance_date |-> nowdate(clock),
                performed_by |-> SessionUser,
                activity |-> activity,
                remarks |-> None]
    IN /\ Cardinality(db[ML]) < MaxLogs
       /\ db' = [db EXCEPT ![ML] = @ \cup {log}]
       /\ last' = Idle
       /\ UNCHANGED <<hasRole, clock>>

Tick ==
    /\ clock < MaxClock
    /\ clock' = clock + 1
    /\ last' = Idle
    /\ UNCHANGED <<db, hasRole>>

---------------------------------------------------------------------------
(* The whole system.                                                       *)
Next ==
    \/ \E d \in db[WSD], f \in FailPoints : SubmitDesign(d, f)
    \/ \E p \in db[PO], f \in FailPoints : SubmitProductionOrder(p, f)
    \/ \E i \in db[IR], f \in FailPoints : SubmitInstallationRecord(i, f)
    \/ \E m \in db[ML], h \in Hashes, f \in FailPoints : SubmitMaintenanceLog(m, h, f)
    \/ \E id \in Components, f \in FailPoints : SubmitManufacturedComponent(id, f)
    \/ \E i \in db[IR], f \in FailPoints : EmergencyJobCard(i, f)
    \/ \E f \in FailPoints : MaintenanceReport(f)
    \/ \E d \in db[WSD], s \in DesignStatuses : SetDesignStatus(d, s)
    \/ \E p \in db[PO], s \in OrderStatuses : SetOrderStatus(p, s)
    \/ \E i \in db[IR], s \in InstallationStatuses : SetInstallationStatus(i, s)
    \/ \E id \in {None, <<"MAINT-1">>}, a \in {None, <<"Filter Change">>} :
          WriteMaintenanceLog(id, a)
    \/ Tick

Spec == Init /\ [][Next]_vars

(* The three workflows do not read each other's documents, except that a   *)
(* Production Order is written by the first and read by the second.  Each  *)
(* is checked on its own.                                                  *)

\* Designs: submission of a Wastewater System Design.
NextDesign ==
    \/ \E d \in db[WSD], f \in FailPoints : SubmitDesign(d, f)
    \/ \E d \in db[WSD], s \in DesignStatuses : SetDesignStatus(d, s)

SpecDesign == Init /\ [][NextDesign]_vars

\* Installations: from a Production Order that SubmitDesign has created for
\* the approved design 1 on day 0.
OrderedStore ==
    LET approved == [EmptyStore EXCEPT ![WSD] =
                        {[d EXCEPT !.status = "Approved"] : d \in @}]
    IN create_production_order(Begin(approved, 0), <<WSD, 1>>, nowdate(0)).cur

InitInstall ==
    /\ db = OrderedStore
    /\ hasRole = {}
    /\ clock = 0
    /\ last = Idle

NextInstall ==
    \/ \E p \in db[PO], f \in FailPoints : SubmitProductionOrder(p, f)
    \/ \E i \in db[IR], f \in FailPoints : SubmitInstallationRecord(i, f)
    \/ \E i \in db[IR], f \in FailPoints : EmergencyJobCard(i, f)
    \/ \E p \in db[PO], s \in OrderStatuses : SetOrderStatus(p, s)
    \/ \E i \in db[IR], s \in InstallationStatuses : SetInstallationStatus(i, s)
    \/ Tick

SpecInstall == InitInstall /\ [][NextInstall]_vars

\* Maintenance: logs, components and the monthly report.
InitLog ==
    /\ db = EmptyStore
    /\ hasRole = {}
    /\ clock = 0
    /\ last = Idle

NextLog ==
    \/ \E m \in db[ML], h \in Hashes, f \in FailPoints : SubmitMaintenanceLog(m, h, f)
    \/ \E id \in Components, f \in FailPoints : SubmitManufacturedComponent(id, f)
    \/ \E f \in FailPoints : MaintenanceReport(f)
    \/ \E id \in {None, <<"MAINT-1">>}, a \in {None, <<"Filter Change">>} :
          WriteMaintenanceLog(id, a)

SpecLog == InitLog /\ [][NextLog]_vars

---------------------------------------------------------------------------
(* Properties.                                                             *)

\* The documents of a doctype that a step adds to the committed store.
Added(dt) == db'[dt] \ db[dt]

\* The document a request was about, as the store held it before the step.
Subject(dt) == CHOOSE r \in db[dt] : r.name = last'.doc

\* Calendar arithmetic, by month number: the date `months` months after x,
\* on the same day of the month or on the month's last day when it is shorter.
CalendarPlus(x, months) ==
    LET idx == x.year * 12 + (x.month - 1) + months
        y == idx \div 12
        m == (idx % 12) + 1
    IN DateObj(y, m, Min(x.day, DaysInMonth(y, m)))

\* C1: after any sequence of handler invocations there is at most one
\* Production Order per Wastewater System Design, at most one Installation
\* Record per Production Order and at most one Warranty Record per
\* Installation Record.
C1_AtMostOneDownstream ==
    /\ \A d \in db[WSD] :
          Cardinality({p \in db[PO] : p.wastewater_design = d.name}) <= 1
    /\ \A p \in db[PO] :
          Cardinality({i \in db[IR] : i.production_order = p.name}) <= 1
    /\ \A i \in db[IR] :
          Cardinality({w \in db[WR] : w.installation_record = i.name}) <= 1

\* C2: when a submission handler raises its user-facing error, the store
\* holds no document created by that invocation and no link it has set.
C2_RaisedLeavesNothing ==
    [][last'.raised =>
          /\ \A dt \in Doctypes :
                {r.name : r \in db'[dt]} \subseteq {r.name : r \in db[dt]}
          /\ \A p \in db[PO] : \A q \in db'[PO] :
                q.name = p.name => q.installation_record = p.installation_record]_vars

\* C3: whenever an exception occurs inside a function of customizations.py,
\* the function logs it under its title and raises to its caller; none
\* completes normally after an internal exception.
C3_ExceptionLoggedThenRaised ==
    last.failed => (last.log # <<>> /\ last.raised)

C5_InstallationAndQuarterlyCards ==
    [][last'.event = PO =>
          /\ (last'.status = "Completed" /\ last'.linked = None /\ ~last'.failed) =>
                \E i \in db'[IR] :
                    /\ Added(IR) = {i}
                    /\ i.status = "Scheduled"
                    /\ i.production_order = last'.doc
                    /\ Cardinality(Added(JC)) = 4
                    /\ {j.scheduled_date : j \in Added(JC)} =
                          {CalendarPlus(i.installation_date, n) : n \in {3, 6, 9, 12}}
                    /\ \A j \in Added(JC) :
                          /\ j.status = "Open"
                          /\ j.maintenance_type = "Scheduled Maintenance"
                          /\ j.emergency = FALSE
                          /\ j.installation_record = i.name
          /\ last'.status # "Completed" => (Added(IR) = {} /\ Added(JC) = {})]_vars

\* A completed, unlinked order has been submitted without a failure.
C5_Witness ==
    /\ last.event = PO
    /\ last.status = "Completed"
    /\ last.linked = None
    /\ ~last.failed
    /\ Cardinality(db[JC]) >= 4

\* C6: a submitted Installation Record gets a Warranty Record if and only if
\* its status is "Installed": the handler adds one only for that status, and
\* when it returns for that status it has added exactly one, "Active", for
\* the submitted record, starting on the installation date and ending one
\* calendar year later.
C6_WarrantyIffInstalled ==
    [][last'.event = IR =>
          /\ Added(WR) # {} => last'.status = "Installed"
          /\ (last'.status = "Installed" /\ ~last'.raised) =>
                \E w \in db'[WR] :
                    /\ Added(WR) = {w}
                    /\ w.status = "Active"
                    /\ w.installation_record = last'.doc
                    /\ w.start_date = Subject(IR).installation_date
                    /\ getdate(w.end_date) =
                          CalendarPlus(Subject(IR).installation_date, 12)
                    /\ w.end_date.year = w.start_date.year + 1]_vars

\* An installed record dated 29 February has been submitted and has its warranty.
C6_Witness ==
    /\ last.event = IR
    /\ last.status = "Installed"
    /\ ~last.raised
    /\ \E w \in db[WR] : w.installation_record = last.doc /\ w.start_date.day = 29

\* C7: a submitted Wastewater System Design gets a Production Order if and
\* only if its status is "Approved": the order is "Draft", names the design
\* in wastewater_design, carries its design_id as production_order_id and
\* has production_qty 1; any other status leaves the Production Orders as
\* they were.
C7_OrderIffApproved ==
    [][last'.event = WSD =>
          /\ last'.status # "Approved" => db'[PO] = db[PO]
          /\ (last'.status = "Approved" /\ ~last'.raised) =>
                \E p \in db'[PO] :
                    /\ Added(PO) = {p}
                    /\ p.status = "Draft"
                    /\ p.wastewater_design = last'.doc
                    /\ p.production_order_id = Subject(WSD).design_id
                    /\ p.production_qty = 1]_vars

\* An approved design has been submitted and its order is stored.
C7_Witness ==
    /\ last.event = WSD
    /\ last.status = "Approved"
    /\ ~last.raised
    /\ \E p \in db[PO] : p.wastewater_design = last.doc

\* C8: send_design_approval_email sends no mail for a design whose status is
\* not "Approved"; a mail it sends goes to exactly the non-empty email
\* addresses of the Production Managers, and none is sent when there are none.
C8_EmailOnlyWhenApproved ==
    last.event = WSD =>
        /\ last.status # "Approved" => last.mail = <<>>
        /\ \A k \in 1..Len(last.mail) :
              LET to == {last.mail[k].recipients[n] : n \in 1..Len(last.mail[k].recipients)}
              IN /\ to # {}
                 /\ to = {UserEmail(r.parent) : r \in hasRole} \ {""}

\* C9: after a successful create_installation_record on a "Completed" order
\* the order's installation_record names the Installation Record created, and
\* an invocation on an order that is already linked creates no Installation
\* Record and no Job Card.
C9_InstallationIdempotent ==
    [][last'.event = PO =>
          /\ (last'.status = "Completed" /\ last'.linked = None /\ ~last'.raised) =>
                \E i \in Added(IR) : \E q \in db'[PO] :
                    q.name = last'.doc /\ q.installation_record = i.name
          /\ last'.linked # None => (Added(IR) = {} /\ Added(JC) = {})]_vars

\* A completed order that was already linked has been submitted again.
C9_Witness ==
    /\ last.event = PO
    /\ last.status = "Completed"
    /\ last.linked # None
    /\ ~last.raised
    /\ Cardinality(db[IR]) = 1

\* C10: no two Job Cards share a job_card_id.
C10_JobCardIdUnique ==
    \A j1, j2 \in db[JC] : j1.job_card_id = j2.job_card_id => j1 = j2

====
